---- MODULE Spec2Model ----
(***************************************************************************)
(* Model of the kubekey playbook executor (package executor):              *)
(* Exec, execBlock, executeTask, execLoop, executeModule, mergeVariable.   *)
(* The walker (Exec / execBlock) is one thread with an explicit call       *)
(* stack; executeTask starts one goroutine per host, which report through  *)
(* a buffered channel to the aggregating loop.                             *)
(***************************************************************************)
EXTENDS Integers, Sequences, FiniteSets, TLC

\* ---------------------------------------------------------------- bounds

\* number of external failures (variable store, persistence, converter, ...)
\* injected into one Exec call
MaxFaults == 1
\* longest loop directive of a task
MaxLoop == 2

\* ------------------------------------------------------------- vocabulary

\* the inventory, in the order the variable store returns host names
Inventory == <<"h1", "h2">>

\* module names known to modules.FindModule
Modules == {"echo", "command"}

\* the value of `item` when no loop item is set (nil)
Nil == 0

PipelinePhasePending == "Pending"
PipelinePhaseRunning == "Running"
PipelinePhaseSucceed == "Succeed"
PipelinePhaseFailed == "Failed"

TaskPhasePending == "Pending"
TaskPhaseRunning == "Running"
TaskPhaseSuccess == "Success"
TaskPhaseIgnored == "Ignored"
TaskPhaseFailed == "Failed"

\* errors returned by Exec / execBlock
ErrProject == "deal project error"
ErrGather == "gather fact error"
ErrSerial == "group host by serial error"
ErrHostEmpty == "host is empty"
ErrMerge == "merge variable error"
ErrOwnerRef == "set controller reference error"
ErrMarshal == "marshal unknown field error"
ErrNoModule == "no module/action detected in task"
ErrCreate == "create task error"
ErrUpdate == "update task status error"
ErrTaskFailed == "task run failed"

\* stderr texts written by a host unit of executeTask
StderrGet == "get variable error"
StderrWhen == "parse when condition error"
StderrSetItem == "set loop item to variable error"
StderrCleanItem == "clean loop item to variable error"
StderrRegister == "register task result to variable error"
StderrFailedWhen == "failed by failedWhen"
StderrModule == "boom"
\* err.Error() of a failed variable Get and of a failed ParseBool in executeModule
StderrGetError == "get variable failed"
StderrParseError == "parse bool failed"

\* ---------------------------------------------------------------- helpers

Range(s) == {s[i] : i \in 1..Len(s)}

Last(s) == s[Len(s)]

Front(s) == SubSeq(s, 1, Len(s) - 1)

RECURSIVE SumSeq(_)
SumSeq(s) == IF s = <<>> THEN 0 ELSE s[1] + SumSeq(Tail(s))

\* ------------------------------------------------------------------ inputs

NoLoop == [set |-> FALSE, items |-> <<>>]

Leaf(n) ==
    [name |-> n, enabled |-> TRUE, runOnce |-> FALSE, vars |-> {},
     when |-> <<>>, block |-> <<>>, rescue |-> <<>>, always |-> <<>>,
     includeTasks |-> "", unknownFiled |-> {"echo"}, ignoreError |-> FALSE,
     register |-> "", loop |-> NoLoop, failedWhen |-> <<>>]

Composite(n, nested, rescue, always) ==
    [Leaf(n) EXCEPT !.unknownFiled = {}, !.block = nested,
                    !.rescue = rescue, !.always = always]

Role(n, blocks) == [role |-> n, vars |-> {}, when |-> <<>>, block |-> blocks]

Play(n) ==
    [name |-> n, enabled |-> TRUE, hosts |-> Inventory, gatherFacts |-> FALSE,
     runOnce |-> FALSE, serial |-> <<>>, vars |-> {},
     preTasks |-> <<>>, roles |-> <<>>, tasks |-> <<>>, postTasks |-> <<>>]

\* ------------------------------------------------------------------- state

VARIABLES
    playbook,   \* pb.Play: the plays returned by MarshalPlaybook
    pipeline,   \* e.pipeline.Status
    store,      \* e.variable: per host the runtime, definition and fact overlays
    pc,         \* position of Exec
    playIdx,    \* Exec: index of the play of `for _, play := range pb.Play`
    batchHosts, \* Exec: batchHosts of the current play
    batchIdx,   \* Exec: index of `serials` in batchHosts
    secIdx,     \* Exec: index of the execBlock call within the batch
    stack,      \* the execBlock activations, innermost last
    ret,        \* the value returned by the execBlock call that just ended
    result,     \* the value returned by Exec
    tasks,      \* the Task records handed to client.Create, in order
    units,      \* executeTask: the goroutine of each host
    dataChan,   \* executeTask: dataChan
    cd,         \* executeTask: cd.HostResults
    walked,     \* history: the execBlock calls made so far
    faults      \* number of external failures injected so far

vars == <<playbook, pipeline, store, pc, playIdx, batchHosts, batchIdx, secIdx,
          stack, ret, result, tasks, units, dataChan, cd, walked, faults>>

\* the external calls that may still fail
Fault == IF faults < MaxFaults THEN {FALSE, TRUE} ELSE {FALSE}

Cost(f) == IF f THEN 1 ELSE 0

\* ----------------------------------------------------- external components

\* modules.FindModule(n) != nil
FindModule(n) == n \in Modules

\* converter.GroupHostBySerial: partition by the counts of serial, the last
\* count repeated for the remainder; no serial is one batch of all hosts
RECURSIVE GroupHostBySerial(_, _)
GroupHostBySerial(hosts, serial) ==
    IF hosts = <<>> THEN <<>>
    ELSE IF serial = <<>> THEN <<hosts>>
    ELSE LET n == IF serial[1] < Len(hosts) THEN serial[1] ELSE Len(hosts)
             rest == IF Len(serial) > 1 THEN Tail(serial) ELSE serial
         IN  <<SubSeq(hosts, 1, n)>>
                 \o GroupHostBySerial(SubSeq(hosts, n + 1, Len(hosts)), rest)

\* one templated expression against a host's scope: "ok", "no" or "error"
EvalExpr(scope, expr) ==
    CASE expr = "true" -> "ok"
      [] expr = "false" -> "no"
      [] expr = "r_failed" ->
            IF scope.reg.set /\ scope.reg.stderr # "" THEN "ok" ELSE "no"
      [] OTHER -> "error"

\* tmpl.ParseBool: the conjunction of the expressions, an error if one of
\* them cannot be evaluated
ParseBool(scope, exprs) ==
    IF \E i \in 1..Len(exprs) : EvalExpr(scope, exprs[i]) = "error" THEN "error"
    ELSE IF \A i \in 1..Len(exprs) : EvalExpr(scope, exprs[i]) = "ok" THEN "ok"
    ELSE "no"

\* variable.Extension2Slice: the loop directive resolved to its items
Extension2Slice(scope, loop) == loop.items

\* converter.MarshalBlock: the Task of a leaf block. `phase` is the status of
\* the Task object in memory, `stored` the status the persistence holds
\* ("" before Create), `id` the name Create generates
MarshalBlock(role, hosts, when, at) ==
    [name |-> at.name, role |-> role, hosts |-> hosts, when |-> when,
     failedWhen |-> at.failedWhen, ignoreError |-> at.ignoreError,
     register |-> at.register, loop |-> at.loop, module |-> "", id |-> 0,
     phase |-> TaskPhasePending, stored |-> "", failedDetail |-> <<>>, conditions |-> <<>>]

\* Task.IsComplete
IsComplete(task) ==
    task.phase \in {TaskPhaseSuccess, TaskPhaseIgnored, TaskPhaseFailed}

\* Task.IsFailed
IsFailed(task) == task.phase = TaskPhaseFailed

\* variable.MergeRuntimeVariable(host, vd) applied by Merge
MergeRuntime(st, host, key, value) ==
    CASE key = "item" -> [st EXCEPT ![host].item = value]
      [] key = "register" -> [st EXCEPT ![host].reg = value]
      [] OTHER -> [st EXCEPT ![host].defs = @ \cup value]

\* variable.MergeRemoteVariable(host, facts) applied by Merge
MergeRemote(st, host) == [st EXCEPT ![host].facts = TRUE]

\* ------------------------------------------------------- Exec: pure parts

\* Exec: batchHosts of a play (run_once: the first host only)
Batches(play, hosts) ==
    IF play.runOnce THEN << <<hosts[1]>> >>
    ELSE GroupHostBySerial(hosts, play.serial)

\* Exec: the execBlock calls made for one batch, in order, each with the
\* block list it is given
Sections(play) ==
    << [slot |-> "PreTasks", blocks |-> play.preTasks, role |-> "",
        when |-> <<>>, vars |-> {}] >>
    \o [i \in 1..Len(play.roles) |->
          [slot |-> "Roles", blocks |-> play.roles[i].block,
           role |-> play.roles[i].role, when |-> play.roles[i].when,
           vars |-> play.roles[i].vars]]
    \o << [slot |-> "Tasks", blocks |-> play.tasks, role |-> "",
           when |-> <<>>, vars |-> {}],
          [slot |-> "Tasks", blocks |-> play.tasks, role |-> "",
           when |-> <<>>, vars |-> {}] >>

\* mergeVariable: nothing for an empty map; else one Merge per host, which
\* may fail at any host, the hosts before it merged
MergeVariable(st, vd, hosts, mayFail) ==
    LET merged(n) ==
            [h \in DOMAIN st |->
                IF \E i \in 1..n : hosts[i] = h
                THEN [st[h] EXCEPT !.defs = @ \cup vd] ELSE st[h]]
    IN  IF vd = {} THEN {[store |-> st, err |-> FALSE]}
        ELSE {[store |-> merged(Len(hosts)), err |-> FALSE]}
             \cup (IF mayFail
                   THEN {[store |-> merged(k - 1), err |-> TRUE] : k \in 1..Len(hosts)}
                   ELSE {})

\* Exec's deferred function, first assignment
DeferredFirst(p) == [p EXCEPT !.phase = PipelinePhaseSucceed]

\* Exec's deferred function, second assignment
DeferredSecond(p) ==
    IF Len(p.failedDetail) # 0 THEN [p EXCEPT !.phase = PipelinePhaseFailed] ELSE p

\* ------------------------------------------------------------ Exec: steps

Frame(blocks, hosts, role, when) ==
    [blocks |-> blocks, i |-> 1, hosts |-> hosts, role |-> role, when |-> when,
     pos |-> "loop"]

Walk(slot, of, hosts) == [slot |-> slot, of |-> of, hosts |-> hosts]

\* Exec returns err: the deferred function runs next
ExecReturn(err) ==
    /\ result' = err
    /\ pc' = "defer"

\* Exec, up to the loop over the plays
ExecBegin ==
    /\ pc = "start"
    /\ pipeline' = [pipeline EXCEPT !.phase = PipelinePhaseRunning]
    /\ \E f \in Fault :
         /\ faults' = faults + Cost(f)
         /\ IF f THEN ExecReturn(ErrProject)
            ELSE pc' = "play" /\ UNCHANGED result
    /\ UNCHANGED <<playbook, store, playIdx, batchHosts, batchIdx, secIdx, stack, ret,
                   tasks, units, dataChan, cd, walked>>

\* Exec: one play up to its batches: tags, hosts, gather_facts, batchHosts
PlayStep ==
    /\ pc = "play"
    /\ IF playIdx > Len(playbook)
       THEN /\ result' = "nil"
            /\ pc' = "defer"
            /\ UNCHANGED <<store, playIdx, batchHosts, batchIdx, faults>>
       ELSE LET play == playbook[playIdx] IN
            \E getFails \in Fault :
              LET hosts == IF getFails THEN <<>> ELSE play.hosts IN
              IF ~play.enabled
              THEN /\ ~getFails
                   /\ playIdx' = playIdx + 1
                   /\ UNCHANGED <<store, pc, result, batchHosts, batchIdx, faults>>
              ELSE IF Len(hosts) = 0
              THEN /\ playIdx' = playIdx + 1
                   /\ faults' = faults + Cost(getFails)
                   /\ UNCHANGED <<store, pc, result, batchHosts, batchIdx>>
              ELSE \E k \in 0..Len(hosts), serialFails \in Fault :
                     \* k: the host whose fact gathering (or its merge) fails
                     LET gathered(n) ==
                             [h \in DOMAIN store |->
                                 IF play.gatherFacts /\ \E i \in 1..n : hosts[i] = h
                                 THEN MergeRemote(store, h)[h] ELSE store[h]]
                     IN
                     /\ k # 0 => play.gatherFacts /\ faults < MaxFaults /\ ~serialFails
                     /\ serialFails => ~play.runOnce
                     /\ faults' = faults + Cost(k # 0 \/ serialFails)
                     /\ store' = gathered(IF k = 0 THEN Len(hosts) ELSE k - 1)
                     /\ IF k # 0
                        THEN ExecReturn(ErrGather)
                             /\ UNCHANGED <<playIdx, batchHosts, batchIdx>>
                        ELSE IF serialFails
                        THEN ExecReturn(ErrSerial)
                             /\ UNCHANGED <<playIdx, batchHosts, batchIdx>>
                        ELSE /\ batchHosts' = Batches(play, hosts)
                             /\ batchIdx' = 1
                             /\ pc' = "batch"
                             /\ UNCHANGED <<playIdx, result>>
    /\ UNCHANGED <<playbook, pipeline, secIdx, stack, ret, tasks, units,
                   dataChan, cd, walked>>

\* Exec: the head of one batch: the empty check and the play's vars
BatchStep ==
    /\ pc = "batch"
    /\ IF batchIdx > Len(batchHosts)
       THEN /\ playIdx' = playIdx + 1
            /\ pc' = "play"
            /\ UNCHANGED <<store, result, secIdx, faults>>
       ELSE LET serials == batchHosts[batchIdx] IN
            IF Len(serials) = 0
            THEN ExecReturn(ErrHostEmpty)
                 /\ UNCHANGED <<store, playIdx, secIdx, faults>>
            ELSE \E mv \in MergeVariable(store, playbook[playIdx].vars, serials,
                                         faults < MaxFaults) :
                   /\ store' = mv.store
                   /\ faults' = faults + Cost(mv.err)
                   /\ IF mv.err
                      THEN ExecReturn(ErrMerge) /\ UNCHANGED <<playIdx, secIdx>>
                      ELSE /\ secIdx' = 1
                           /\ pc' = "section"
                           /\ UNCHANGED <<playIdx, result>>
    /\ UNCHANGED <<playbook, pipeline, batchHosts, batchIdx, stack, ret, tasks,
                   units, dataChan, cd, walked>>

\* Exec: the next execBlock call of the batch (a role's vars merged first)
SectionStep ==
    /\ pc = "section"
    /\ LET secs == Sections(playbook[playIdx])
           serials == batchHosts[batchIdx]
       IN  IF secIdx > Len(secs)
           THEN /\ batchIdx' = batchIdx + 1
                /\ pc' = "batch"
                /\ UNCHANGED <<store, result, stack, walked, faults>>
           ELSE \E mv \in MergeVariable(store, secs[secIdx].vars, serials,
                                        faults < MaxFaults) :
                  /\ store' = mv.store
                  /\ faults' = faults + Cost(mv.err)
                  /\ IF mv.err
                     THEN ExecReturn(ErrMerge) /\ UNCHANGED <<stack, walked, batchIdx>>
                     ELSE /\ stack' = << Frame(secs[secIdx].blocks, serials,
                                               secs[secIdx].role, secs[secIdx].when) >>
                          /\ walked' = Append(walked,
                                 Walk(secs[secIdx].slot, playbook[playIdx].name, serials))
                          /\ pc' = "call"
                          /\ UNCHANGED <<result, batchIdx>>
    /\ UNCHANGED <<playbook, pipeline, playIdx, batchHosts, secIdx, ret, tasks,
                   units, dataChan, cd>>

\* Exec: an execBlock call of the batch has returned
SectionReturn ==
    /\ pc = "call"
    /\ stack = <<>>
    /\ ret # "none"
    /\ ret' = "none"
    /\ IF ret = "nil"
       THEN secIdx' = secIdx + 1 /\ pc' = "section" /\ UNCHANGED result
       ELSE ExecReturn(ret) /\ UNCHANGED secIdx
    /\ UNCHANGED <<playbook, pipeline, store, playIdx, batchHosts, batchIdx,
                   stack, tasks, units, dataChan, cd, walked, faults>>

\* Exec's deferred function: the phase is set to Succeed ...
DeferSucceed ==
    /\ pc = "defer"
    /\ pipeline' = DeferredFirst(pipeline)
    /\ pc' = "defer2"
    /\ UNCHANGED <<playbook, store, playIdx, batchHosts, batchIdx, secIdx, stack,
                   ret, result, tasks, units, dataChan, cd, walked, faults>>

\* ... and then to Failed if a failure detail was recorded
DeferFailed ==
    /\ pc = "defer2"
    /\ pipeline' = DeferredSecond(pipeline)
    /\ pc' = "done"
    /\ UNCHANGED <<playbook, store, playIdx, batchHosts, batchIdx, secIdx, stack,
                   ret, result, tasks, units, dataChan, cd, walked, faults>>

\* -------------------------------------------------- execBlock: pure parts

\* BlockHosts with run_once ignored
BlockHosts_AllHosts(at, hosts) == hosts

\* execBlock: the hosts of one block (run_once: the first host only)
BlockHosts(at, hosts) == IF at.runOnce THEN <<hosts[1]>> ELSE hosts

\* ModuleChoices without the registry lookup: any field names the module
ModuleChoices_AnyField(at) ==
    IF at.unknownFiled = {} THEN {""} ELSE at.unknownFiled

\* execBlock: the module names the scan of at.UnknownFiled can end with (Go
\* ranges over the map in any order and stops at the first registered name)
ModuleChoices(at) ==
    LET found == {n \in at.unknownFiled : FindModule(n)}
    IN  IF found = {} THEN {""} ELSE found

\* execBlock: what follows the walk of one list of a composite block that
\* returned nil: "rescue", "always" or "next" (the next block)
AfterList(at, pos, phase) ==
    IF pos = "nested" /\ phase = PipelinePhaseFailed /\ Len(at.rescue) # 0
    THEN "rescue"
    ELSE IF pos \in {"nested", "rescue"} /\ Len(at.always) # 0
    THEN "always"
    ELSE "next"

\* CountTask with no bucket for an ignored task
CountTask_IgnoredUncounted(p, phase) ==
    LET q == [p EXCEPT !.total = @ + 1]
    IN  CASE phase = TaskPhaseSuccess -> [q EXCEPT !.success = @ + 1]
          [] phase = TaskPhaseFailed -> [q EXCEPT !.failed = @ + 1]
          [] OTHER -> q

\* execBlock: the counters after one task
CountTask(p, phase) ==
    LET q == [p EXCEPT !.total = @ + 1]
    IN  CASE phase = TaskPhaseSuccess -> [q EXCEPT !.success = @ + 1]
          [] phase = TaskPhaseIgnored -> [q EXCEPT !.ignored = @ + 1]
          [] phase = TaskPhaseFailed -> [q EXCEPT !.failed = @ + 1]
          [] OTHER -> q

\* RecordFailure that leaves the pipeline phase alone
RecordFailure_NoPhase(p, task) ==
    [p EXCEPT !.failedDetail = Append(@, [task |-> task.name,
                                          hosts |-> task.failedDetail]),
              !.reason = [text |-> ErrTaskFailed, task |-> task.id]]

\* execBlock: the pipeline status after a failed task
RecordFailure(p, task) ==
    LET hostReason ==
            [i \in 1..Len(task.failedDetail) |->
                [host |-> task.failedDetail[i].host,
                 stdout |-> task.failedDetail[i].stdout,
                 stderr |-> task.failedDetail[i].stderr]]
    IN  [p EXCEPT !.failedDetail = Append(@, [task |-> task.name, hosts |-> hostReason]),
                  !.phase = PipelinePhaseFailed,
                  !.reason = [text |-> ErrTaskFailed, task |-> task.id]]

\* Aggregate with ignore_error left out: a failing host fails the task
Aggregate_NoIgnore(task, data) ==
    IF data.stderr # ""
    THEN [task EXCEPT !.phase = TaskPhaseFailed, !.failedDetail = Append(@, data)]
    ELSE task

\* Aggregate that keeps the failure detail of the last failing host only
Aggregate_LastOnly(task, data) ==
    IF data.stderr # ""
    THEN IF task.ignoreError
         THEN [task EXCEPT !.phase = TaskPhaseIgnored]
         ELSE [task EXCEPT !.phase = TaskPhaseFailed, !.failedDetail = <<data>>]
    ELSE task

\* executeTask: the aggregation of one host result into the task status
Aggregate(task, data) ==
    IF data.stderr # ""
    THEN IF task.ignoreError
         THEN [task EXCEPT !.phase = TaskPhaseIgnored]
         ELSE [task EXCEPT !.phase = TaskPhaseFailed,
                           !.failedDetail = Append(@, data)]
    ELSE task

\* execLoop: the items of the task on one host
execLoop(scope, task) ==
    IF ~task.loop.set THEN <<Nil>> ELSE Extension2Slice(scope, task.loop)

\* ------------------------------------------------------- execBlock: steps

top == stack[Len(stack)]

\* the task being driven: the one created last
task == tasks[Len(tasks)]

\* execBlock returns err ("nil": no error) to its caller
Return(err) ==
    /\ stack' = Front(stack)
    /\ ret' = err

\* BlockSkipped with the tag test left out
BlockSkipped_Never(at) == FALSE

\* execBlock: a block the tags do not enable is skipped
BlockSkipped(at) == ~at.enabled

\* execBlock: the next block of the list, up to the walk of its nested list
\* or the creation of its task; the end of the list returns nil
BlockStep ==
    /\ pc = "call"
    /\ stack # <<>>
    /\ top.pos = "loop"
    /\ ret = "none"
    /\ IF top.i > Len(top.blocks)
       THEN Return("nil") /\ UNCHANGED <<store, tasks, walked, faults>>
       ELSE
         LET at == top.blocks[top.i]
             hosts == BlockHosts(at, top.hosts)
             when == top.when \o at.when
             next == [stack EXCEPT ![Len(stack)].i = @ + 1]
         IN
         IF BlockSkipped(at)
         THEN stack' = next /\ UNCHANGED <<store, ret, tasks, walked, faults>>
         ELSE
           \E mv \in MergeVariable(store, at.vars, hosts, faults < MaxFaults) :
             /\ store' = mv.store
             /\ IF mv.err
                THEN /\ Return(ErrMerge)
                     /\ faults' = faults + 1
                     /\ UNCHANGED <<tasks, walked>>
                ELSE
                  CASE Len(at.block) # 0 ->
                         /\ stack' = Append([stack EXCEPT ![Len(stack)].pos = "nested"],
                                            Frame(at.block, hosts, top.role, when))
                         /\ walked' = Append(walked, Walk("Block", at.name, hosts))
                         /\ UNCHANGED <<ret, tasks, faults>>
                    [] Len(at.block) = 0 /\ at.includeTasks # "" ->
                         /\ stack' = next
                         /\ UNCHANGED <<ret, tasks, walked, faults>>
                    [] OTHER ->
                         \E m \in ModuleChoices(at),
                            o \in {"ok"} \cup (IF faults < MaxFaults
                                               THEN {ErrOwnerRef, ErrMarshal, ErrCreate}
                                               ELSE {}) :
                           LET t == [MarshalBlock(top.role, hosts, when, at)
                                       EXCEPT !.module = m]
                           IN
                           /\ o = ErrMarshal => at.unknownFiled # {}
                           /\ o = ErrCreate => m # ""
                           /\ faults' = faults + Cost(o # "ok")
                           /\ UNCHANGED walked
                           /\ IF o \in {ErrOwnerRef, ErrMarshal}
                              THEN Return(o) /\ UNCHANGED tasks
                              ELSE IF t.module = ""
                              THEN Return(ErrNoModule) /\ UNCHANGED tasks
                              ELSE IF o = ErrCreate
                              THEN Return(ErrCreate) /\ UNCHANGED tasks
                              ELSE /\ tasks' = Append(tasks, [t EXCEPT !.id = Len(tasks) + 1,
                                                             !.stored = t.phase])
                                   /\ stack' = [stack EXCEPT ![Len(stack)].pos = "drive"]
                                   /\ UNCHANGED ret
    /\ UNCHANGED <<playbook, pipeline, pc, playIdx, batchHosts, batchIdx, secIdx,
                   result, units, dataChan, cd>>

\* ListReturn that goes on after an error of the list it walked
ListReturn_ErrorDropped ==
    /\ pc = "call"
    /\ stack # <<>>
    /\ top.pos \in {"nested", "rescue", "always"}
    /\ ret # "none"
    /\ IF FALSE
       THEN Return(ret) /\ UNCHANGED walked
       ELSE LET at == top.blocks[top.i]
                hosts == BlockHosts(at, top.hosts)
                then == AfterList(at, top.pos, pipeline.phase)
                list == IF then = "rescue" THEN at.rescue ELSE at.always
            IN  /\ ret' = "none"
                /\ IF then = "next"
                   THEN /\ stack' = [stack EXCEPT ![Len(stack)].i = @ + 1,
                                                  ![Len(stack)].pos = "loop"]
                        /\ UNCHANGED walked
                   ELSE /\ stack' = Append([stack EXCEPT ![Len(stack)].pos = then],
                                           Frame(list, hosts, top.role, top.when \o at.when))
                        /\ walked' = Append(walked,
                              Walk(IF then = "rescue" THEN "Rescue" ELSE "Always",
                                   at.name, hosts))
    /\ UNCHANGED <<playbook, pipeline, store, pc, playIdx, batchHosts, batchIdx,
                   secIdx, result, tasks, units, dataChan, cd, faults>>

\* execBlock: the walk of the nested, rescue or always list of a composite
\* block has returned
ListReturn ==
    /\ pc = "call"
    /\ stack # <<>>
    /\ top.pos \in {"nested", "rescue", "always"}
    /\ ret # "none"
    /\ IF ret # "nil"
       THEN Return(ret) /\ UNCHANGED walked
       ELSE LET at == top.blocks[top.i]
                hosts == BlockHosts(at, top.hosts)
                then == AfterList(at, top.pos, pipeline.phase)
                list == IF then = "rescue" THEN at.rescue ELSE at.always
            IN  /\ ret' = "none"
                /\ IF then = "next"
                   THEN /\ stack' = [stack EXCEPT ![Len(stack)].i = @ + 1,
                                                  ![Len(stack)].pos = "loop"]
                        /\ UNCHANGED walked
                   ELSE /\ stack' = Append([stack EXCEPT ![Len(stack)].pos = then],
                                           Frame(list, hosts, top.role, top.when \o at.when))
                        /\ walked' = Append(walked,
                              Walk(IF then = "rescue" THEN "Rescue" ELSE "Always",
                                   at.name, hosts))
    /\ UNCHANGED <<playbook, pipeline, store, pc, playIdx, batchHosts, batchIdx,
                   secIdx, result, tasks, units, dataChan, cd, faults>>

\* execBlock's drive loop: the task is marked Running; a failure of this
\* status update is only logged
MarkRunning ==
    /\ pc = "call"
    /\ stack # <<>>
    /\ top.pos = "drive"
    /\ \E f \in Fault :
         /\ faults' = faults + Cost(f)
         /\ tasks' = [tasks EXCEPT
                ![Len(tasks)].phase = TaskPhaseRunning,
                ![Len(tasks)].stored = IF f THEN @ ELSE TaskPhaseRunning]
    /\ stack' = [stack EXCEPT ![Len(stack)].pos = "run"]
    /\ UNCHANGED <<playbook, pipeline, store, pc, playIdx, batchHosts, batchIdx,
                   secIdx, ret, result, units, dataChan, cd, walked>>

\* ---------------------------------------------------------- executeTask

IdleUnit ==
    [pc |-> "idle", stdout |-> "", stderr |-> "", loop |-> <<>>, i |-> 0,
     invoked |-> 0, clearFailed |-> FALSE]

\* the goroutine started for host h. clearFailed is history kept across
\* tasks: a merge of {item: nil} for this host has failed
StartUnit(u) == [IdleUnit EXCEPT !.pc = "begin", !.clearFailed = u.clearFailed]

\* what a module can return: (stdout, stderr)
ModuleResults ==
    {[stdout |-> "ok", stderr |-> ""], [stdout |-> "", stderr |-> StderrModule]}

\* RunTask without the preset of the phase to Success
RunTask_NoPreset ==
    /\ pc = "call"
    /\ stack # <<>>
    /\ top.pos = "run"
    /\ units' = [h \in DOMAIN units |->
                    IF h \in Range(task.hosts)
                    THEN StartUnit(units[h])
                    ELSE [IdleUnit EXCEPT !.clearFailed = units[h].clearFailed]]
    /\ dataChan' = [buf |-> <<>>, closed |-> FALSE, cap |-> Len(task.hosts)]
    /\ cd' = <<>>
    /\ stack' = [stack EXCEPT ![Len(stack)].pos = "exec"]
    /\ UNCHANGED <<playbook, pipeline, store, pc, playIdx, batchHosts, batchIdx,
                   secIdx, ret, result, tasks, walked, faults>>

\* executeTask up to the aggregation loop: the channel is made with room for
\* one result per host, one goroutine per host is started and the phase is
\* preset to Success
RunTask ==
    /\ pc = "call"
    /\ stack # <<>>
    /\ top.pos = "run"
    /\ units' = [h \in DOMAIN units |->
                    IF h \in Range(task.hosts)
                    THEN StartUnit(units[h])
                    ELSE [IdleUnit EXCEPT !.clearFailed = units[h].clearFailed]]
    /\ dataChan' = [buf |-> <<>>, closed |-> FALSE, cap |-> Len(task.hosts)]
    /\ cd' = <<>>
    /\ tasks' = [tasks EXCEPT ![Len(tasks)].phase = TaskPhaseSuccess]
    /\ stack' = [stack EXCEPT ![Len(stack)].pos = "exec"]
    /\ UNCHANGED <<playbook, pipeline, store, pc, playIdx, batchHosts, batchIdx,
                   secIdx, ret, result, walked, faults>>

Running(h) ==
    /\ pc = "call"
    /\ stack # <<>>
    /\ top.pos = "exec"
    /\ h \in Range(task.hosts)

\* host goroutine: the variables, the when condition and the loop items
UnitBegin(h) ==
    /\ Running(h)
    /\ units[h].pc = "begin"
    /\ \E getFails \in Fault :
         LET ha == store[h]
             ok == IF Len(task.when) > 0 THEN ParseBool(ha, task.when) ELSE "ok"
             loop == execLoop(ha, task)
         IN
         /\ faults' = faults + Cost(getFails)
         /\ units' = [units EXCEPT ![h] =
              IF getFails THEN [@ EXCEPT !.stderr = StderrGet, !.pc = "defer"]
              ELSE IF ok = "error" THEN [@ EXCEPT !.stderr = StderrWhen, !.pc = "defer"]
              ELSE IF ok = "no" THEN [@ EXCEPT !.stdout = "skip", !.pc = "defer"]
              ELSE [@ EXCEPT !.loop = loop, !.i = 1,
                             !.pc = IF Len(loop) = 0 THEN "defer" ELSE "item"]]
    /\ UNCHANGED <<playbook, pipeline, store, pc, playIdx, batchHosts, batchIdx,
                   secIdx, stack, ret, result, tasks, dataChan, cd, walked>>

\* host goroutine: the loop item is set in the runtime variables
UnitSetItem(h) ==
    /\ Running(h)
    /\ units[h].pc = "item"
    /\ \E f \in Fault :
         /\ faults' = faults + Cost(f)
         /\ IF f
            THEN /\ units' = [units EXCEPT ![h].stderr = StderrSetItem,
                                           ![h].pc = "defer"]
                 /\ UNCHANGED store
            ELSE /\ store' = MergeRuntime(store, h, "item", units[h].loop[units[h].i])
                 /\ units' = [units EXCEPT ![h].pc = "module"]
    /\ UNCHANGED <<playbook, pipeline, pc, playIdx, batchHosts, batchIdx, secIdx,
                   stack, ret, result, tasks, dataChan, cd, walked>>

\* executeModule: the variables, failed_when, then the module itself
UnitModule(h) ==
    /\ Running(h)
    /\ units[h].pc = "module"
    /\ \E getFails \in Fault, r \in ModuleResults :
         LET lg == store[h]
             ok == IF Len(task.failedWhen) > 0
                   THEN ParseBool(lg, task.failedWhen) ELSE "no"
             called == ~getFails /\ ok = "no"
             out == IF getFails THEN [stdout |-> "", stderr |-> StderrGetError]
                    ELSE IF ok = "error" THEN [stdout |-> "", stderr |-> StderrParseError]
                    ELSE IF ok = "ok" THEN [stdout |-> "", stderr |-> StderrFailedWhen]
                    ELSE r
         IN
         /\ ~called => r.stderr = ""
         /\ faults' = faults + Cost(getFails)
         /\ units' = [units EXCEPT ![h].stdout = out.stdout,
                                   ![h].stderr = out.stderr,
                                   ![h].invoked = @ + Cost(called),
                                   ![h].pc = "clear"]
    /\ UNCHANGED <<playbook, pipeline, store, pc, playIdx, batchHosts, batchIdx,
                   secIdx, stack, ret, result, tasks, dataChan, cd, walked>>

\* UnitClear that deletes the item only after a successful module call
UnitClear_KeepOnFailure(h) ==
    /\ pc = "call"
    /\ stack # <<>>
    /\ stack[Len(stack)].pos = "exec"
    /\ h \in Range(tasks[Len(tasks)].hosts)
    /\ units[h].pc = "clear"
    /\ store' = IF units[h].stderr = ""
                THEN MergeRuntime(store, h, "item", Nil) ELSE store
    /\ units' = [units EXCEPT
           ![h].i = @ + 1,
           ![h].pc = IF units[h].i < Len(units[h].loop) THEN "item" ELSE "defer"]
    /\ UNCHANGED <<playbook, pipeline, pc, playIdx, batchHosts, batchIdx, secIdx,
                   stack, ret, result, tasks, dataChan, cd, walked, faults>>

\* host goroutine: the loop item is deleted; then the next item
UnitClear(h) ==
    /\ Running(h)
    /\ units[h].pc = "clear"
    /\ \E f \in Fault :
         /\ faults' = faults + Cost(f)
         /\ IF f
            THEN /\ units' = [units EXCEPT ![h].stderr = StderrCleanItem,
                                           ![h].clearFailed = TRUE,
                                           ![h].pc = "defer"]
                 /\ UNCHANGED store
            ELSE /\ store' = MergeRuntime(store, h, "item", Nil)
                 /\ units' = [units EXCEPT
                        ![h].i = @ + 1,
                        ![h].pc = IF units[h].i < Len(units[h].loop)
                                  THEN "item" ELSE "defer"]
    /\ UNCHANGED <<playbook, pipeline, pc, playIdx, batchHosts, batchIdx, secIdx,
                   stack, ret, result, tasks, dataChan, cd, walked>>

\* host goroutine, deferred: the result is registered and sent (the send
\* waits while the channel is full); a failed register merge ends the
\* goroutine before the send
UnitDefer(h) ==
    /\ Running(h)
    /\ units[h].pc = "defer"
    /\ \E f \in Fault :
         LET u == units[h] IN
         /\ f => task.register # ""
         /\ faults' = faults + Cost(f)
         /\ IF f
            THEN /\ units' = [units EXCEPT ![h].stderr = StderrRegister,
                                           ![h].pc = "done"]
                 /\ UNCHANGED <<store, dataChan>>
            ELSE /\ store' = IF task.register # ""
                             THEN MergeRuntime(store, h, "register",
                                    [set |-> TRUE, stdout |-> u.stdout, stderr |-> u.stderr])
                             ELSE store
                 /\ Len(dataChan.buf) < dataChan.cap
                 /\ dataChan' = [dataChan EXCEPT !.buf =
                        Append(@, [host |-> h, stdout |-> u.stdout, stderr |-> u.stderr])]
                 /\ units' = [units EXCEPT ![h].pc = "done"]
    /\ UNCHANGED <<playbook, pipeline, pc, playIdx, batchHosts, batchIdx, secIdx,
                   stack, ret, result, tasks, cd, walked>>

\* CloseChan that waits for one host goroutine only
CloseChan_NoWait ==
    /\ pc = "call"
    /\ stack # <<>>
    /\ top.pos = "exec"
    /\ ~dataChan.closed
    /\ \E h \in Range(task.hosts) : units[h].pc = "done"
    /\ dataChan' = [dataChan EXCEPT !.closed = TRUE]
    /\ UNCHANGED <<playbook, pipeline, store, pc, playIdx, batchHosts, batchIdx,
                   secIdx, stack, ret, result, tasks, units, cd, walked, faults>>

\* the goroutine that waits for the host goroutines and closes the channel
CloseChan ==
    /\ pc = "call"
    /\ stack # <<>>
    /\ top.pos = "exec"
    /\ ~dataChan.closed
    /\ \A h \in Range(task.hosts) : units[h].pc = "done"
    /\ dataChan' = [dataChan EXCEPT !.closed = TRUE]
    /\ UNCHANGED <<playbook, pipeline, store, pc, playIdx, batchHosts, batchIdx,
                   secIdx, stack, ret, result, tasks, units, cd, walked, faults>>

\* executeTask: one turn of `for data := range dataChan`
Collect ==
    /\ pc = "call"
    /\ stack # <<>>
    /\ top.pos = "exec"
    /\ dataChan.buf # <<>>
    /\ LET data == Head(dataChan.buf)
       IN  /\ tasks' = [tasks EXCEPT ![Len(tasks)] = Aggregate(@, data)]
           /\ cd' = Append(cd, data)
    /\ dataChan' = [dataChan EXCEPT !.buf = Tail(@)]
    /\ UNCHANGED <<playbook, pipeline, store, pc, playIdx, batchHosts, batchIdx,
                   secIdx, stack, ret, result, units, walked, faults>>

\* TaskDone in which a failure of the status update is only logged
TaskDone_UpdateLogged ==
    /\ pc = "call"
    /\ stack # <<>>
    /\ top.pos = "exec"
    /\ dataChan.closed
    /\ dataChan.buf = <<>>
    /\ \E f \in Fault :
         LET t == [task EXCEPT !.conditions = Append(@, cd),
                               !.stored = IF f THEN @ ELSE task.phase]
         IN
         /\ faults' = faults + Cost(f)
         /\ tasks' = [tasks EXCEPT ![Len(tasks)] = t]
         /\ IF ~IsComplete(t)
            THEN /\ stack' = [stack EXCEPT ![Len(stack)].pos = "drive"]
                 /\ UNCHANGED <<ret, pipeline>>
            ELSE IF IsFailed(t)
            THEN /\ pipeline' = RecordFailure(CountTask(pipeline, t.phase), t)
                 /\ Return(ErrTaskFailed)
            ELSE /\ pipeline' = CountTask(pipeline, t.phase)
                 /\ stack' = [stack EXCEPT ![Len(stack)].i = @ + 1,
                                           ![Len(stack)].pos = "loop"]
                 /\ UNCHANGED ret
    /\ UNCHANGED <<playbook, store, pc, playIdx, batchHosts, batchIdx, secIdx,
                   result, units, dataChan, cd, walked>>

\* executeTask returns (the channel is closed and drained); execBlock
\* updates the task status, counts the task and records a failure
TaskDone ==
    /\ pc = "call"
    /\ stack # <<>>
    /\ top.pos = "exec"
    /\ dataChan.closed
    /\ dataChan.buf = <<>>
    /\ \E f \in Fault :
         LET t == [task EXCEPT !.conditions = Append(@, cd),
                               !.stored = IF f THEN @ ELSE task.phase]
         IN
         /\ faults' = faults + Cost(f)
         /\ tasks' = [tasks EXCEPT ![Len(tasks)] = t]
         /\ IF f
            THEN Return(ErrUpdate) /\ UNCHANGED pipeline
            ELSE IF ~IsComplete(t)
            THEN /\ stack' = [stack EXCEPT ![Len(stack)].pos = "drive"]
                 /\ UNCHANGED <<ret, pipeline>>
            ELSE IF IsFailed(t)
            THEN /\ pipeline' = RecordFailure(CountTask(pipeline, t.phase), t)
                 /\ Return(ErrTaskFailed)
            ELSE /\ pipeline' = CountTask(pipeline, t.phase)
                 /\ stack' = [stack EXCEPT ![Len(stack)].i = @ + 1,
                                           ![Len(stack)].pos = "loop"]
                 /\ UNCHANGED ret
    /\ UNCHANGED <<playbook, store, pc, playIdx, batchHosts, batchIdx, secIdx,
                   result, units, dataChan, cd, walked>>

\* ------------------------------------------------------------ playbooks

\* the loop directives: none, or the items 1..n
LoopChoices ==
    {NoLoop} \cup {[set |-> TRUE, items |-> [i \in 1..n |-> i]] : n \in 0..MaxLoop}

\* one play with a leaf in every block list, for every batching
SectionPlaybooks ==
    { << [Play("p1") EXCEPT
            !.preTasks = <<Leaf("pre")>>,
            !.roles = << [Role("role1", <<Leaf("rl")>>) EXCEPT
                            !.vars = {"rv"}, !.when = <<"true">>] >>,
            !.tasks = <<Leaf("t")>>,
            !.postTasks = <<Leaf("post")>>,
            !.serial = s, !.runOnce = ro, !.gatherFacts = g, !.vars = v] >> :
        s \in {<<>>, <<1>>}, ro \in BOOLEAN, g \in BOOLEAN, v \in {{}, {"pv"}} }

\* two plays: the first may be filtered out or without hosts, the second
\* may gather facts
TwoPlaybooks ==
    { << [Play("p1") EXCEPT !.preTasks = <<Leaf("a")>>, !.runOnce = TRUE,
                            !.enabled = en, !.hosts = hs],
         [Play("p2") EXCEPT !.preTasks = <<Leaf("b")>>, !.serial = <<1>>,
                            !.gatherFacts = g] >> :
        en \in BOOLEAN, hs \in {Inventory, <<>>}, g \in BOOLEAN }

\* composite blocks with and without rescue and always, alone or nested in
\* another composite block, followed by a leaf
CompositeBlocks ==
    { [Composite("c", << [Leaf("a") EXCEPT !.ignoreError = ie] >>, rs, al)
         EXCEPT !.runOnce = ro, !.when = <<"true">>] :
        ie \in BOOLEAN, rs \in {<<>>, <<Leaf("r")>>}, al \in {<<>>, <<Leaf("w")>>},
        ro \in BOOLEAN }
    \cup { [Composite("c", <<Leaf("a")>>, <<Leaf("r")>>, <<Leaf("w")>>)
              EXCEPT !.enabled = FALSE] }

CompositePlaybooks ==
    { << [Play("p1") EXCEPT !.preTasks = <<c, [Leaf("z") EXCEPT !.runOnce = TRUE]>>] >> :
        c \in CompositeBlocks }
    \cup
    { << [Play("p1") EXCEPT !.preTasks = <<c>>, !.serial = <<1>>] >> :
        c \in {d \in CompositeBlocks : d.runOnce} }
    \cup
    { << [Play("p1") EXCEPT !.preTasks =
            << [Composite("o", <<c>>, <<>>, <<Leaf("ow")>>) EXCEPT !.runOnce = ro] >>] >> :
        c \in {d \in CompositeBlocks : d.enabled /\ ~d.runOnce /\ d.rescue # <<>>
                                        /\ d.always # <<>>},
        ro \in BOOLEAN }

\* one leaf of every shape the walker distinguishes
WalkerLeaves ==
    { [Leaf("t") EXCEPT !.unknownFiled = uf, !.includeTasks = inc, !.runOnce = ro,
                        !.enabled = en, !.vars = vs] :
        uf \in {{}, {"bogus"}, {"echo"}, {"echo", "command"}, {"bogus", "command"}},
        inc \in {"", "tasks.yaml"}, ro \in BOOLEAN, en \in BOOLEAN,
        vs \in {{}, {"bv"}} }

\* one leaf of every shape the task runner distinguishes
RunnerLeaves ==
    { [Leaf("t") EXCEPT !.ignoreError = ie, !.loop = lp, !.register = rg,
                        !.when = w, !.failedWhen = fw] :
        ie \in BOOLEAN, lp \in LoopChoices, rg \in {"", "r"},
        w \in {<<>>, <<"false">>, <<"bad">>},
        fw \in {<<>>, <<"true">>, <<"r_failed">>, <<"bad">>} }

LeafPlaybooks ==
    { << [Play("p1") EXCEPT !.preTasks = <<l>>] >> : l \in WalkerLeaves \cup RunnerLeaves }

Playbooks ==
    SectionPlaybooks \cup TwoPlaybooks \cup CompositePlaybooks \cup LeafPlaybooks

\* ------------------------------------------------------- specification

Init ==
    /\ playbook \in Playbooks
    /\ pipeline = [phase |-> PipelinePhasePending, total |-> 0, success |-> 0,
                   ignored |-> 0, failed |-> 0, failedDetail |-> <<>>,
                   reason |-> [text |-> "", task |-> 0]]
    /\ store = [h \in Range(Inventory) |->
                  [item |-> Nil, reg |-> [set |-> FALSE, stdout |-> "", stderr |-> ""],
                   defs |-> {}, facts |-> FALSE]]
    /\ pc = "start"
    /\ playIdx = 1
    /\ batchHosts = <<>>
    /\ batchIdx = 1
    /\ secIdx = 1
    /\ stack = <<>>
    /\ ret = "none"
    /\ result = "none"
    /\ tasks = <<>>
    /\ units = [h \in Range(Inventory) |-> IdleUnit]
    /\ dataChan = [buf |-> <<>>, closed |-> FALSE, cap |-> 0]
    /\ cd = <<>>
    /\ walked = <<>>
    /\ faults = 0

Next ==
    \/ ExecBegin
    \/ PlayStep
    \/ BatchStep
    \/ SectionStep
    \/ SectionReturn
    \/ DeferSucceed
    \/ DeferFailed
    \/ BlockStep
    \/ ListReturn
    \/ MarkRunning
    \/ RunTask
    \/ \E h \in Range(Inventory) : UnitBegin(h)
    \/ \E h \in Range(Inventory) : UnitSetItem(h)
    \/ \E h \in Range(Inventory) : UnitModule(h)
    \/ \E h \in Range(Inventory) : UnitClear(h)
    \/ \E h \in Range(Inventory) : UnitDefer(h)
    \/ CloseChan
    \/ Collect
    \/ TaskDone

Spec == Init /\ [][Next]_vars

\* the scheduling the termination of the task drive rests on: while a step
\* of Exec, of the walker or of a goroutine is possible, one is taken (every
\* call outside the executor returns, every runnable goroutine runs)
FairSpec == Spec /\ WF_vars(Next)

\* ------------------------------------------------------------ properties

RECURSIVE BlocksIn(_)
\* the blocks of a block list and of every list below it
BlocksIn(bs) ==
    UNION { {bs[i]} \cup BlocksIn(bs[i].block) \cup BlocksIn(bs[i].rescue)
                    \cup BlocksIn(bs[i].always) : i \in 1..Len(bs) }

PlayBlocks(p) ==
    BlocksIn(p.preTasks) \cup BlocksIn(p.tasks) \cup BlocksIn(p.postTasks)
    \cup UNION { BlocksIn(p.roles[i].block) : i \in 1..Len(p.roles) }

AllBlocks == UNION { PlayBlocks(playbook[k]) : k \in 1..Len(playbook) }

Names(bs) == {b.name : b \in BlocksIn(bs)}

IsLeaf(b) == Len(b.block) = 0 /\ b.includeTasks = ""

\* the positions of the execBlock calls for one list of one block
Walks(slot, of) ==
    {i \in 1..Len(walked) : walked[i].slot = slot /\ walked[i].of = of}

\* the position of the last of them, 0 if there is none
LastWalk(slot, of) ==
    IF Walks(slot, of) = {} THEN 0
    ELSE CHOOSE i \in Walks(slot, of) : \A j \in Walks(slot, of) : j <= i

Done == pc = "done"

\* a task runner is between its start and its return
RunnerActive == pc = "call" /\ stack # <<>> /\ top.pos = "exec"

\* the host results of a condition that report a failure
Failures(results) == SelectSeq(results, LAMBDA r : r.stderr # "")

\* C1: when a task of the nested list of a composite block with a rescue
\* list ended Failed, the rescue list has been walked once Exec is over, and
\* before the always list (stated for the runs without any external failure)
C1_RescueWalkedBeforeAlways ==
    (Done /\ faults = 0) =>
        \A b \in AllBlocks :
            (/\ Len(b.rescue) # 0
             /\ \E i \in 1..Len(tasks) :
                    tasks[i].name \in Names(b.block) /\ tasks[i].phase = TaskPhaseFailed)
            => \E i \in Walks("Rescue", b.name) :
                   /\ i > LastWalk("Block", b.name)
                   /\ \A j \in Walks("Always", b.name) :
                          j > LastWalk("Block", b.name) => i < j

\* C2: every composite block with an always list whose nested list was
\* walked has had its always list walked as often once Exec is over, also
\* when a nested task failed (stated for the runs without any external
\* failure)
C2_AlwaysWalked ==
    (Done /\ faults = 0) =>
        \A b \in AllBlocks :
            Len(b.always) # 0 =>
                Cardinality(Walks("Always", b.name)) = Cardinality(Walks("Block", b.name))

\* C3: every write of the pipeline phase follows Pending -> Running ->
\* {Succeed, Failed}: never Failed -> Succeed nor Succeed -> Failed
C3_PhaseMonotone ==
    [][ \/ pipeline'.phase = pipeline.phase
        \/ <<pipeline.phase, pipeline'.phase>> \in
              { <<PipelinePhasePending, PipelinePhaseRunning>>,
                <<PipelinePhaseRunning, PipelinePhaseSucceed>>,
                <<PipelinePhaseRunning, PipelinePhaseFailed>> } ]_vars

\* the tasks whose final status update stored the phase ph: the counted ones
Stored(ph) == {i \in 1..Len(tasks) : tasks[i].stored = ph}

\* C4: in every state, so after every counter update and at Exec return,
\* total = success + ignored + failed, each bucket being the number of
\* tasks that ended in its phase
C4_CounterAccounting ==
    /\ pipeline.total = pipeline.success + pipeline.ignored + pipeline.failed
    /\ pipeline.success = Cardinality(Stored(TaskPhaseSuccess))
    /\ pipeline.ignored = Cardinality(Stored(TaskPhaseIgnored))
    /\ pipeline.failed = Cardinality(Stored(TaskPhaseFailed))

\* C4 witness: Exec is over with a task in every bucket
C4_Witness ==
    Done /\ pipeline.success > 0 /\ pipeline.ignored > 0 /\ pipeline.failed > 0

NamesFrom(k) ==
    UNION { {b.name : b \in PlayBlocks(playbook[n])} : n \in k..Len(playbook) }

\* C6: when fact gathering fails, Exec returns the error, no task of that
\* play or a later one exists, and the phase at Exec return is Failed
C6_GatherFailureEndsFailed ==
    (Done /\ result = ErrGather) =>
        /\ pipeline.phase = PipelinePhaseFailed
        /\ \A i \in 1..Len(tasks) : tasks[i].name \notin NamesFrom(playIdx)

\* C7: after an Exec without failure every leaf of play.Tasks and every
\* leaf of play.PostTasks has exactly one task per batch
C7_OneTaskPerLeafAndBatch ==
    (Done /\ result = "nil" /\ faults = 0) =>
        \A k \in 1..Len(playbook) :
            LET p == playbook[k]
                batches == Batches(p, p.hosts)
            IN  (p.enabled /\ Len(p.hosts) # 0) =>
                \A n \in 1..Len(batches) :
                    \A l \in Range(p.tasks) \cup Range(p.postTasks) :
                        (IsLeaf(l) /\ l.enabled) =>
                            Cardinality({i \in 1..Len(tasks) :
                                /\ tasks[i].name = l.name
                                /\ tasks[i].hosts = BlockHosts(l, batches[n])}) = 1

\* C8 as stated: when no task runner is active, no host has a loop item
\* left in its runtime variables
C8_ItemCleared ==
    ~RunnerActive => \A h \in Range(Inventory) : store[h].item = Nil

\* C8 as amended: a host has a loop item set only between the merge of the
\* item and the merge that deletes it (the module call in between, whatever
\* it returns), or after a merge of {item: nil} for that host has failed
C8_ItemHygiene ==
    \A h \in Range(Inventory) :
        store[h].item # Nil =>
            \/ units[h].clearFailed
            \/ RunnerActive /\ h \in Range(task.hosts)
                 /\ units[h].pc \in {"module", "clear"}

\* C8 witness: a task with a loop has returned, the module having failed on
\* the last item of some host, and no host has an item left
C8_Witness ==
    /\ pc = "call"
    /\ ~RunnerActive
    /\ tasks # <<>>
    /\ task.loop.set /\ Len(task.loop.items) >= 2
    /\ task.conditions # <<>>
    /\ \E r \in Range(task.conditions[1]) :
          r.stderr = StderrModule /\ units[r.host].invoked = Len(task.loop.items)
    /\ \A h \in Range(Inventory) : store[h].item = Nil

\* the walker is about to handle an enabled leaf without a registered module
AtNoModuleLeaf ==
    /\ pc = "call" /\ stack # <<>> /\ top.pos = "loop" /\ ret = "none"
    /\ top.i <= Len(top.blocks)
    /\ LET at == top.blocks[top.i]
       IN  at.enabled /\ IsLeaf(at) /\ \A n \in at.unknownFiled : ~FindModule(n)

\* C9: every created task has a module name that is registered (and a field
\* of its leaf block); handling a leaf without such a field creates no task
\* and returns an error, the no-module error unless an external call failed
\* before
C9_ModuleRequired ==
    /\ [](\A i \in 1..Len(tasks) :
            /\ tasks[i].module # ""
            /\ FindModule(tasks[i].module)
            /\ \A b \in AllBlocks :
                  b.name = tasks[i].name => IsLeaf(b) /\ tasks[i].module \in b.unknownFiled)
    /\ [][AtNoModuleLeaf =>
            /\ tasks' = tasks
            /\ ret' \notin {"none", "nil"}
            /\ faults' = faults => ret' = ErrNoModule]_vars

\* C9 witness: Exec is over with the no-module error and no task
C9_Witness == Done /\ result = ErrNoModule /\ tasks = <<>>

\* run_once is set on the block being handled or on a block around it
RunOnceInForce ==
    \E k \in 1..Len(stack) : stack[k].blocks[stack[k].i].runOnce

\* C10: the task being driven has, under a play with run_once, exactly the
\* play's first host, and under a block with run_once (its own or an
\* enclosing block's) exactly the first host of the current batch
C10_RunOnce ==
    (pc = "call" /\ stack # <<>> /\ top.pos \in {"drive", "run", "exec"}) =>
        /\ playbook[playIdx].runOnce => task.hosts = <<playbook[playIdx].hosts[1]>>
        /\ RunOnceInForce => task.hosts = <<batchHosts[batchIdx][1]>>

\* C10 witness: a task runs on the first of the two hosts of its batch
\* because an enclosing block, not its own leaf, has run_once
C10_Witness ==
    /\ RunnerActive
    /\ Len(batchHosts[batchIdx]) = 2
    /\ ~top.blocks[top.i].runOnce
    /\ RunOnceInForce
    /\ task.hosts = <<batchHosts[batchIdx][1]>>

\* the names the tags exclude among the blocks of the list bs and their
\* descendants; off: the play or a block above the list is not enabled
RECURSIVE ExcludedIn(_, _)
ExcludedIn(bs, off) ==
    UNION { LET b == bs[i]
                out == off \/ ~b.enabled
            IN  (IF out THEN {b.name} ELSE {})
                \cup ExcludedIn(b.block, out) \cup ExcludedIn(b.rescue, out)
                \cup ExcludedIn(b.always, out) : i \in 1..Len(bs) }

\* the names the tags exclude: a block that is not enabled with its nested,
\* rescue and always descendants, and every block of a play that is not enabled
DisabledNames ==
    UNION { LET p == playbook[k]
                off == ~p.enabled
            IN  ExcludedIn(p.preTasks, off) \cup ExcludedIn(p.tasks, off)
                \cup ExcludedIn(p.postTasks, off)
                \cup UNION { ExcludedIn(p.roles[i].block, off) : i \in 1..Len(p.roles) } :
            k \in DOMAIN playbook }

\* C11: a play or a block the tags do not enable contributes no Task record,
\* neither for itself nor for a nested, rescue or always descendant; none of
\* its lists is walked, and the counters count only the other tasks
C11_TagFiltering ==
    LET excluded == DisabledNames
    IN  /\ \A i \in DOMAIN tasks : tasks[i].name \notin excluded
        /\ \A i \in DOMAIN walked : walked[i].of \notin excluded
        /\ pipeline.total =
             Cardinality({i \in DOMAIN tasks :
                            /\ tasks[i].name \notin excluded
                            /\ tasks[i].stored \in {TaskPhaseSuccess, TaskPhaseIgnored,
                                                    TaskPhaseFailed}})

\* Exec has returned nil over a playbook with a block the tags exclude that
\* has descendants, and the task of the block behind it was created
C11_Witness ==
    /\ Done
    /\ result = "nil"
    /\ \E b \in AllBlocks : ~b.enabled /\ Len(b.block) # 0 /\ Len(b.always) # 0
    /\ Len(tasks) = 1
    /\ pipeline.total = 1

\* the terminal task phases
Terminal == {TaskPhaseSuccess, TaskPhaseIgnored, TaskPhaseFailed}

\* the goroutine of host h is between its start and its end
UnitActive(h) == units[h].pc \notin {"idle", "done"}

\* every task has its terminal phase stored after a runner pass
AllTasksEnded ==
    \A i \in DOMAIN tasks : tasks[i].stored \in Terminal /\ tasks[i].conditions # <<>>

\* C12: batches run one after the other. A host goroutine is active only
\* while the runner of the one task being driven is, for a host of that task,
\* and every task before that one has its terminal phase stored; a task is
\* created only for hosts of the current batch; and the current batch changes
\* only when every task has its terminal phase stored and no host goroutine
\* is active, to the next batch of the play or the first batch of a later play
C12_BatchesSequential ==
    /\ [](/\ \A i \in 1..(Len(tasks) - 1) :
               tasks[i].stored \in Terminal /\ tasks[i].conditions # <<>>
          /\ \A h \in Range(Inventory) :
               UnitActive(h) =>
                 /\ RunnerActive
                 /\ h \in Range(task.hosts)
                 /\ Range(task.hosts) \subseteq Range(batchHosts[batchIdx]))
    /\ [][Len(tasks') > Len(tasks) =>
            /\ Len(tasks') = Len(tasks) + 1
            /\ Range(tasks'[Len(tasks')].hosts) \subseteq Range(batchHosts[batchIdx])
            /\ <<playIdx', batchIdx', batchHosts'>> = <<playIdx, batchIdx, batchHosts>>]_vars
    /\ [][<<playIdx', batchIdx', batchHosts'>> # <<playIdx, batchIdx, batchHosts>> =>
            /\ AllTasksEnded
            /\ \A h \in Range(Inventory) : ~UnitActive(h)
            /\ stack = <<>>
            /\ \/ playIdx' = playIdx /\ batchHosts' = batchHosts /\ batchIdx' = batchIdx + 1
               \/ playIdx' = playIdx /\ batchIdx' = 1 /\ pc = "play"
               \/ playIdx' = playIdx + 1 /\ batchHosts' = batchHosts
                    /\ batchIdx' = batchIdx]_vars

\* a module is about to be invoked for the host of the second batch, after
\* the tasks of the first batch ended
C12_Witness ==
    /\ RunnerActive
    /\ batchIdx = 2
    /\ Len(tasks) > 1
    /\ Range(tasks[1].hosts) \subseteq Range(batchHosts[1])
    /\ tasks[1].stored \in Terminal
    /\ \E h \in Range(batchHosts[2]) : units[h].pc = "module"
    /\ \A h \in Range(batchHosts[1]) : ~UnitActive(h)

\* executeTask has returned for the task being driven: the channel is closed
\* and drained, and execBlock is about to update the task status
RunnerReturns ==
    RunnerActive /\ dataChan.closed /\ dataChan.buf = <<>>

\* a task with ignore_error has collected a host result with a stderr
IgnoredCase ==
    RunnerReturns /\ task.ignoreError /\ \E i \in DOMAIN cd : cd[i].stderr # ""

\* what the ignore-error policy promises for the step that ends the task
IgnoredOutcome ==
    /\ tasks'[Len(tasks)].phase = TaskPhaseIgnored
    /\ tasks'[Len(tasks)].stored = TaskPhaseIgnored
    /\ tasks'[Len(tasks)].failedDetail = <<>>
    /\ pipeline' = [pipeline EXCEPT !.total = @ + 1, !.ignored = @ + 1]
    /\ pipeline'.phase # PipelinePhaseFailed
    /\ ret' = "none"
    /\ stack' = [stack EXCEPT ![Len(stack)].i = @ + 1, ![Len(stack)].pos = "loop"]

\* C13 as stated: a task with ignore_error whose host result has a stderr
\* ends Ignored, is counted as ignored, adds no failure detail, leaves the
\* pipeline phase alone, and the walker goes on to the next block
C13_IgnoreErrorAlways ==
    [][IgnoredCase => IgnoredOutcome]_vars

\* C13 amended: the same, when the status update that follows the runner
\* succeeds; when it fails the task stays uncounted and execBlock returns
\* the update error
C13_IgnoreError ==
    [][IgnoredCase =>
         IF faults' = faults THEN IgnoredOutcome
         ELSE /\ ret' = ErrUpdate
              /\ pipeline' = pipeline
              /\ tasks'[Len(tasks)].stored # TaskPhaseIgnored]_vars

\* the walker is past a task that was ignored after one of its hosts failed
C13_Witness ==
    /\ pc = "call"
    /\ stack # <<>>
    /\ top.pos = "loop"
    /\ top.i = 2
    /\ tasks # <<>>
    /\ task.stored = TaskPhaseIgnored
    /\ \E i \in DOMAIN Last(task.conditions) : Last(task.conditions)[i].stderr # ""
    /\ pipeline.ignored = 1
    /\ pipeline.failedDetail = <<>>

\* the goroutine of host h has ended its loop: its result is about to be,
\* or has been, sent
UnitEnded(h) ==
    RunnerActive /\ h \in Range(task.hosts) /\ units[h].pc \in {"defer", "done"}

\* the value of the task's when condition on host h
WhenOf(h) == IF Len(task.when) > 0 THEN ParseBool(store[h], task.when) ELSE "ok"

\* C14: in a runner pass in which no call outside the executor has failed,
\* the module is invoked zero times for a host whose when condition is
\* false, and the result of that host is stdout "skip" with an empty stderr;
\* for a host whose when condition holds it is invoked once per loop item,
\* and once when the task has no loop
C14_InvocationCount ==
    \A h \in Range(Inventory) :
      (UnitEnded(h) /\ faults = 0) =>
        /\ WhenOf(h) = "no" =>
             /\ units[h].invoked = 0
             /\ units[h].stdout = "skip"
             /\ units[h].stderr = ""
        /\ WhenOf(h) = "ok" =>
             units[h].invoked = Len(execLoop(store[h], task))

\* C15: after a runner pass, whatever the order the host results arrived in,
\* the task is Success exactly if no collected result has a stderr; with a
\* failing result it is Ignored without failure detail under ignore_error,
\* and otherwise Failed with a failure detail of exactly one entry per
\* failing host
C15_Aggregation ==
    \A i \in DOMAIN tasks :
      tasks[i].conditions # <<>> =>
        LET t == tasks[i]
            fails == Failures(Last(t.conditions))
        IN  /\ t.phase = TaskPhaseSuccess <=> fails = <<>>
            /\ (fails # <<>> /\ t.ignoreError) =>
                  t.phase = TaskPhaseIgnored /\ t.failedDetail = <<>>
            /\ (fails # <<>> /\ ~t.ignoreError) =>
                  /\ t.phase = TaskPhaseFailed
                  /\ t.failedDetail = fails
                  /\ Cardinality({fails[k].host : k \in DOMAIN fails}) = Len(fails)

\* the results arrived in the order h2, h1, one of them failing, and the
\* task is Failed with that one host in its failure detail
C15_Witness ==
    /\ tasks # <<>>
    /\ task.conditions # <<>>
    /\ LET res == Last(task.conditions)
       IN  /\ Len(res) = 2
           /\ res[1].host = "h2"
           /\ res[2].host = "h1"
           /\ res[1].stderr # ""
           /\ res[2].stderr = ""
    /\ task.phase = TaskPhaseFailed
    /\ Len(task.failedDetail) = 1

\* C16: the condition a runner pass appends to the task holds exactly one
\* host result for every host of the task
C16_OneResultPerHost ==
    \A i \in DOMAIN tasks :
      \A c \in DOMAIN tasks[i].conditions :
        LET res == tasks[i].conditions[c]
        IN  \A h \in Range(tasks[i].hosts) :
              Cardinality({k \in DOMAIN res : res[k].host = h}) = 1

\* C17: when the register merge of a host has failed, the condition of the
\* task holds a result of that host with the merge failure as its stderr,
\* and the task is not Success
C17_RegisterFailureEmitted ==
    \A h \in Range(Inventory) :
      (tasks # <<>> /\ task.conditions # <<>> /\ h \in Range(task.hosts)
         /\ units[h].pc = "done" /\ units[h].stderr = StderrRegister) =>
        /\ \E k \in DOMAIN Last(task.conditions) :
              /\ Last(task.conditions)[k].host = h
              /\ Last(task.conditions)[k].stderr = StderrRegister
        /\ task.phase # TaskPhaseSuccess

\* the module is invoked for every loop item of host h whatever failed_when
\* says
InvokedRegardless(h) ==
    units[h].invoked = Len(execLoop(store[h], task))

\* failed_when holds on the scope of host h after the module and the
\* register merge: the result of the host is the failed_when failure
OverriddenAfter(h) ==
    (units[h].pc = "done" /\ ParseBool(store[h], task.failedWhen) = "ok") =>
      units[h].stderr = StderrFailedWhen

\* C18: failed_when is evaluated after the module invocation and the
\* register merge, on the scope they leave: in a pass in which no call
\* outside the executor has failed, the module is invoked for every loop
\* item whether or not failed_when holds, and the result of a host on whose
\* final scope failed_when holds has the stderr "failed by failedWhen"
C18_FailedWhenAfterModule ==
    \A h \in Range(Inventory) :
      (UnitEnded(h) /\ faults = 0 /\ WhenOf(h) = "ok" /\ Len(task.failedWhen) > 0) =>
        InvokedRegardless(h) /\ OverriddenAfter(h)

\* C19: in the loop of a host, once the module has returned a stderr for an
\* item, the invocation for a later item leaves the stderr of the host's
\* result non-empty
C19_FailureKept ==
    [][\A h \in Range(Inventory) :
         (RunnerActive /\ units[h].pc = "module" /\ units[h].stderr = StderrModule)
           => units'[h].stderr # ""]_vars

\* the errors of the persistence calls of the task drive
PersistenceErrors == {ErrCreate, ErrUpdate}

\* a persistence error is on its way out of execBlock, or is what Exec
\* returned
PersistenceFailed == ret \in PersistenceErrors \/ result \in PersistenceErrors

\* C20: a failed update to Running is not fatal: the step that marks the
\* task Running returns no error and the runner is started next. A failed
\* Create or a failed status update after the runner pass is fatal: a task
\* whose runner returned and whose terminal phase was not stored is the last
\* task and the update error is returned up to Exec, the counters count only
\* the tasks whose terminal phase was stored, so not this one, and from then
\* on no task is created, no runner is started and no counter changes
C20_PersistenceFailures ==
    /\ [](\A i \in DOMAIN tasks :
            (tasks[i].conditions # <<>> /\ tasks[i].stored \notin Terminal) =>
              i = Len(tasks) /\ (ret = ErrUpdate \/ result = ErrUpdate))
    /\ [](PersistenceFailed =>
            /\ pipeline.total = Cardinality({i \in DOMAIN tasks : tasks[i].stored \in Terminal})
            /\ (ret = ErrUpdate \/ result = ErrUpdate) => task.stored \notin Terminal
            /\ ~RunnerActive
            /\ Done => result \in PersistenceErrors)
    /\ [][(pc = "call" /\ stack # <<>> /\ top.pos = "drive") =>
            (ret' = "none" /\ stack' = [stack EXCEPT ![Len(stack)].pos = "run"])]_vars
    /\ [][(pc = "call" /\ stack # <<>> /\ top.pos = "run") =>
            (ret' = "none" /\ stack' = [stack EXCEPT ![Len(stack)].pos = "exec"])]_vars
    /\ [][PersistenceFailed =>
            /\ PersistenceFailed'
            /\ Len(tasks') = Len(tasks)
            /\ pipeline'.total = pipeline.total
            /\ pipeline'.success = pipeline.success
            /\ pipeline'.ignored = pipeline.ignored
            /\ pipeline'.failed = pipeline.failed]_vars

\* Exec has returned the error of the status update that followed the
\* runner pass of the second task: the task has its terminal phase in
\* memory only and is not counted
C20_Witness ==
    /\ Done
    /\ result = ErrUpdate
    /\ Len(tasks) = 2
    /\ task.phase \in Terminal
    /\ task.conditions # <<>>
    /\ task.stored \notin Terminal
    /\ pipeline.total = 1

\* the drive loop of the task created last is running
InDrive == pc = "call" /\ stack # <<>> /\ top.pos \in {"drive", "run", "exec"}

\* C21: the task drive ends. While the runner is active a host goroutine
\* that is to send its result finds room in the open channel, and the
\* channel is closed only when every host goroutine has ended; a runner pass
\* leaves the task in a terminal phase, a task has no second pass and has
\* had exactly one once its drive is over, and the step that ends the pass
\* never goes back to the head of the drive loop; and, every possible step
\* being taken eventually, a drive that has begun comes to its end
C21_DriveTerminates ==
    /\ [](RunnerActive =>
            /\ \A h \in Range(task.hosts) :
                  units[h].pc = "defer" =>
                    ~dataChan.closed /\ Len(dataChan.buf) < dataChan.cap
            /\ dataChan.closed => \A h \in Range(task.hosts) : units[h].pc = "done")
    /\ [](\A i \in DOMAIN tasks :
            /\ Len(tasks[i].conditions) <= 1
            /\ tasks[i].conditions # <<>> => tasks[i].phase \in Terminal
            /\ (i < Len(tasks) \/ ~InDrive) => Len(tasks[i].conditions) = 1)
    /\ [][RunnerReturns => ~InDrive']_vars
    /\ (InDrive ~> ~InDrive)

\* the runner of a task on two hosts has returned after both sent their
\* result, and the walker is at the next block
C21_Witness ==
    /\ pc = "call"
    /\ stack # <<>>
    /\ top.pos = "loop"
    /\ tasks # <<>>
    /\ Len(task.hosts) = 2
    /\ Len(task.conditions) = 1
    /\ Len(task.conditions[1]) = 2
    /\ dataChan.closed
    /\ dataChan.cap = 2
    /\ \A h \in Range(task.hosts) : units[h].pc = "done"

\* the runner pass of some task has ended with the task Failed
FailedEnded ==
    \E i \in DOMAIN tasks :
      tasks[i].phase = TaskPhaseFailed /\ tasks[i].conditions # <<>>

====
